---- MODULE Spec2Model ----
(***************************************************************************)
(* Session driver of scripts/run_overcooked_game.py (class App) and the    *)
(* agent abstraction of oai_agents/agents/base_agent.py.                   *)
(*                                                                         *)
(* The environment (OvercookedGymEnv), pygame and the policies are         *)
(* external collaborators: the model keeps of them only what the driver    *)
(* observes (reward, done, is_done(), the event queue, the action index a  *)
(* policy returns).                                                        *)
(***************************************************************************)
EXTENDS Integers, Sequences, FiniteSets, TLC

(* ---------------------------------------------------------------------- *)
(* Bounds of the model                                                    *)
(* ---------------------------------------------------------------------- *)
\* the environment reports done at the latest after MaxTicks steps
MaxTicks == 2
\* events pending in the pygame queue between two polls
MaxQueue == 1
\* records of a replayed log
MaxLog == 3
\* largest trial number of a file already in the data directory
MaxTrial == 2

(* ---------------------------------------------------------------------- *)
(* Python values                                                          *)
(* ---------------------------------------------------------------------- *)
None == [t |-> "NoneType"]
PyInt(n) == [t |-> "int", v |-> n]
PyStr(s) == [t |-> "str", v |-> s]
PyList(s) == [t |-> "list", v |-> s]
PyTuple(s) == [t |-> "tuple", v |-> s]
PyBool(b) == [t |-> "bool", v |-> b]

\* bool(x) of a str or None
bool(x) == x # None /\ x # PyStr("")

Max(S) == CHOOSE m \in S : \A n \in S : n <= m

(* ---------------------------------------------------------------------- *)
(* Inputs                                                                 *)
(* ---------------------------------------------------------------------- *)
\* self.layout_name, fixed by the constructor
layout_name == "forced_coordination"

Layouts == {"forced_coordination", "asymmetric_advantages"}

\* the traj_file argument of App
TrajFiles == {None, PyStr(""), PyStr("trials.pickle")}

\* the agent argument of App, by concrete type
Agents == {None, [t |-> "SB3Wrapper"], [t |-> "HumanManagerHRL"]}

\* entries a data directory can hold before the session: trial files
\* <stem>.<number>.pickle and the aggregate all_trials.pickle
DirEntries ==
    {[stem |-> layout_name, num |-> PyInt(1)],
     [stem |-> "asymmetric_advantages", num |-> PyInt(MaxTrial)],
     [stem |-> "all_trials", num |-> None]}

\* events the window system delivers
KEYDOWN(k) == [type |-> "KEYDOWN", key |-> k]
QUIT == [type |-> "QUIT", key |-> "-"]
Events == {KEYDOWN("K_UP"), KEYDOWN("K_SPACE"), QUIT}

\* info['sparse_r_by_agent'] values the environment reports
SparseRewards == {<<0, 0>>, <<0, 20>>}

\* action indices a policy returns from predict
PolicyActions == {4, 5}

(* ---------------------------------------------------------------------- *)
(* Action tables of overcooked_ai_py (Direction, Action)                  *)
(* ---------------------------------------------------------------------- *)
NORTH == PyTuple("0,-1")
SOUTH == PyTuple("0,1")
EAST == PyTuple("1,0")
WEST == PyTuple("-1,0")
STAY == PyTuple("0,0")
INTERACT == PyStr("interact")

ALL_ACTIONS == <<NORTH, SOUTH, EAST, WEST, STAY, INTERACT>>

ACTION_TO_INDEX(a) == (CHOOSE k \in 1..Len(ALL_ACTIONS) : ALL_ACTIONS[k] = a) - 1

(* ---------------------------------------------------------------------- *)
(* Persisted joint actions and their parsing                              *)
(* ---------------------------------------------------------------------- *)
\* str.lower() on the strings a log holds
lower(s) == IF s = "INTERACT" \/ s = "Interact" THEN "interact" ELSE s

\* a df cell: its syntax (a JSON array for json.loads, else a list or a
\* tuple literal for eval, else not a string) and the two parsed elements
Cell(syntax, e0, e1) == [syntax |-> syntax, elems |-> <<e0, e1>>]

\* '[[0,-1],"INTERACT"]'
CellUpper == Cell("json", PyList("0,-1"), PyStr("INTERACT"))
\* '[[5,5],"interact"]'
CellIllegal == Cell("json", PyList("5,5"), PyStr("interact"))

Cells == {CellUpper, CellIllegal}

\* mutant: the membership assertion is dropped
NormaliseElement_NoAssert(container, e) ==
    LET e1 == IF e.t = "list" THEN PyTuple(e.v) ELSE e
        e2 == IF e1.t = "str" THEN PyStr(lower(e1.v)) ELSE e1
        assigns == e.t = "list" \/ e.t = "str"
    IN  IF assigns /\ container = "tuple" THEN [ok |-> FALSE, v |-> e]
        ELSE [ok |-> TRUE, v |-> e2]

\* one element of the loop of str_to_actions; the result is the normalised
\* element, or "raise" when the list assignment or the assertion fails
NormaliseElement(container, e) ==
    LET e1 == IF e.t = "list" THEN PyTuple(e.v) ELSE e
        e2 == IF e1.t = "str" THEN PyStr(lower(e1.v)) ELSE e1
        assigns == e.t = "list" \/ e.t = "str"
    IN  IF assigns /\ container = "tuple" THEN [ok |-> FALSE, v |-> e]
        ELSE [ok |-> \E k \in 1..Len(ALL_ACTIONS) : ALL_ACTIONS[k] = e2, v |-> e2]

Raised == [ok |-> FALSE, joint_action |-> [p \in {0, 1} |-> None]]

\* str_to_actions: Raised when it raises, else the joint action
str_to_actions(cell) ==
    LET container == IF cell.syntax \in {"json", "literal_list"} THEN "list" ELSE "tuple"
        n0 == NormaliseElement(container, cell.elems[1])
        n1 == NormaliseElement(container, cell.elems[2])
    IN  IF cell.syntax = "not_a_string" THEN Raised
        ELSE IF ~n0.ok THEN Raised
        ELSE IF ~n1.ok THEN Raised
        ELSE [ok |-> TRUE,
              joint_action |-> [p \in {0, 1} |-> IF p = 0 THEN n0.v ELSE n1.v]]

\* a row of a persisted trajectory, as replay reads it
Row(tid, cell, l) == [trial_id |-> tid, joint_action |-> cell, layout_name |-> l]

Rows == {Row(tid, c, layout_name) : tid \in {1, 2}, c \in Cells}
            \cup {Row(1, CellUpper, "asymmetric_advantages")}

RECURSIVE SeqsUpTo(_, _)
SeqsUpTo(S, n) ==
    IF n = 0 THEN {<<>>}
    ELSE LET shorter == SeqsUpTo(S, n - 1)
         IN  shorter \cup {Append(s, x) : s \in {q \in shorter : Len(q) = n - 1}, x \in S}

Logs == SeqsUpTo(Rows, MaxLog)

(* ---------------------------------------------------------------------- *)
(* State                                                                  *)
(* ---------------------------------------------------------------------- *)
VARIABLES
    pc,                 \* position of the driver
    mode,               \* self.mode
    agent,              \* self.agent
    traj_file,          \* the traj_file argument
    _running,           \* self._running
    score,              \* self.score
    curr_tick,          \* self.curr_tick
    joint_action,       \* self.joint_action
    agent_action,       \* self.agent_action
    collect_trajectory, \* self.collect_trajectory
    trajectory,         \* self.trajectory
    trial_id,           \* self.trial_id (0: attribute not set)
    seat,               \* i of the for loop of collection_execution
    row_index,          \* position of the iterrows loop of replay_execution
    cursor,             \* local trial_id of replay_execution
    on_reset,           \* local on_reset of play_execution
    events,             \* the pygame event queue
    env_t,              \* steps of the environment since its last reset
    env_done,           \* self.env.is_done()
    data_dir,           \* listdir(self.data_path)
    pickles,            \* what to_pickle wrote, in order
    predict_call,       \* arguments of the last predict call
    quit_received,      \* history: on_event has handled a QUIT
    env_joint_action,   \* history: the argument of the last env.step
    done_signalled,     \* history: an env.step has returned done
    count,              \* history: calls made so far, by callee
    oai_agent,          \* an OAIAgent object: its fields
    loaded,             \* the object the last load returned
    trainer_agents,     \* OAITrainer.agents
    fs,                 \* the file system the checkpoints live in
    ret                 \* the last call on an agent or a trainer, and its outcome

sessionVars == <<pc, mode, agent, traj_file, _running, score, curr_tick, joint_action,
          agent_action, collect_trajectory, trajectory, trial_id, seat,
          row_index, cursor, on_reset, events, env_t, env_done, data_dir,
          pickles, predict_call, quit_received, env_joint_action,
          done_signalled, count>>

agentVars == <<oai_agent, loaded, trainer_agents, fs, ret>>

vars == <<sessionVars, agentVars>>

Callees == {"on_init", "on_render", "env_step", "env_reset", "get_obs",
            "predict", "save_trajectory", "on_cleanup"}

Bump(c, callee) == [c EXCEPT ![callee] = @ + 1]

(* ---------------------------------------------------------------------- *)
(* App.__init__                                                           *)
(* ---------------------------------------------------------------------- *)
\* mutant: the agent argument is tested before the trajectory file
ModeOf_AgentFirst(tf, ag) ==
    IF ag # None THEN "play"
    ELSE IF tf # None THEN "replay"
    ELSE "collect_data"

\* the mode tag chosen from the constructor's arguments
ModeOf(tf, ag) ==
    IF tf # None THEN "replay"
    ELSE IF ag # None THEN "play"
    ELSE "collect_data"

\* mutant: the number of trial files instead of the largest trial number
NextTrialId_Count(listing) ==
    Cardinality({e.num.v : e \in {f \in listing : f.num # None}}) + 1

\* the trial number of a new collection, from the directory listing
NextTrialId(listing) ==
    LET trial_ids == {e.num.v : e \in {f \in listing : f.num # None}}
    IN  IF trial_ids # {} THEN Max(trial_ids) + 1 ELSE 1

\* self.trajectory[self.trajectory['layout_name'] == layout_name]
FilterLayout(df, l) == SelectSeq(df, LAMBDA row : row.layout_name = l)

\* no agent or trainer object is exercised beside the session
NoAgent ==
    /\ oai_agent = None
    /\ loaded = None
    /\ trainer_agents = <<>>
    /\ fs = [files |-> {}, dirs |-> {}]
    /\ ret = None

\* The replay branch reads the free names data_path and layout_name, which
\* resolve in the module namespace: g is the binding of layout_name there
\* (None when the names are unbound and the constructor raises NameError).
Init ==
    \E tf \in TrajFiles, ag \in Agents, listing \in SUBSET DirEntries,
       log \in Logs, g \in {None} \cup {PyStr(l) : l \in Layouts} :
        /\ traj_file = tf
        /\ agent = ag
        /\ mode = ModeOf(tf, ag)
        /\ _running = TRUE
        /\ score = 0
        /\ curr_tick = 0
        /\ joint_action = [p \in {0, 1} |-> None]
        /\ agent_action = None
        /\ collect_trajectory = ~bool(tf)
        /\ IF ~bool(tf)
              THEN /\ trajectory = <<>>
                   /\ trial_id = NextTrialId(listing)
                   /\ data_dir = listing
                   /\ log = <<>>
                   /\ g = None
                   /\ pc = "constructed"
              ELSE /\ trial_id = 0
                   /\ data_dir = {}
                   /\ listing = {}
                   /\ IF g = None
                         THEN /\ trajectory = <<>>
                              /\ log = <<>>
                              /\ pc = "raised"
                         ELSE /\ trajectory = FilterLayout(log, g.v)
                              /\ pc = "constructed"
        /\ seat = 0
        /\ row_index = 0
        /\ cursor = 0
        /\ on_reset = TRUE
        /\ events = <<>>
        /\ env_t = 0
        /\ env_done = FALSE
        /\ pickles = <<>>
        /\ predict_call = None
        /\ quit_received = FALSE
        /\ env_joint_action = None
        /\ done_signalled = FALSE
        /\ count = [c \in Callees |-> 0]
        /\ NoAgent

(* ---------------------------------------------------------------------- *)
(* App.on_execute, App.on_init                                            *)
(* ---------------------------------------------------------------------- *)
\* on_execute dispatches on the mode; each *_execution starts with on_init
OnExecute ==
    /\ pc = "constructed"
    /\ _running' = TRUE
    /\ count' = Bump(count, "on_init")
    /\ pc' = CASE mode = "collect_data" -> "collect_while"
              [] mode = "replay" -> "replay_start"
              [] mode = "play" -> "play_while"
    /\ UNCHANGED <<agentVars, env_joint_action, done_signalled, mode, agent, traj_file, score, curr_tick, joint_action,
                   agent_action, collect_trajectory, trajectory, trial_id,
                   seat, row_index, cursor, on_reset, events, env_t, env_done,
                   data_dir, pickles, predict_call, quit_received>>

(* ---------------------------------------------------------------------- *)
(* The window system                                                      *)
(* ---------------------------------------------------------------------- *)
\* the window system queues an event; an event that arrives elsewhere in
\* the tick is read by the same poll as one that arrives during the wait,
\* and only collection_execution reads the queue
EventArrives ==
    /\ pc = "collect_wait"
    /\ Len(events) < MaxQueue
    /\ \E e \in Events : events' = Append(events, e)
    /\ UNCHANGED <<agentVars, env_joint_action, done_signalled, pc, mode, agent, traj_file, _running, score, curr_tick,
                   joint_action, agent_action, collect_trajectory, trajectory,
                   trial_id, seat, row_index, cursor, on_reset, env_t,
                   env_done, data_dir, pickles, predict_call, quit_received,
                   count>>

(* ---------------------------------------------------------------------- *)
(* App.on_event                                                           *)
(* ---------------------------------------------------------------------- *)
KeyAction(pressed_key) ==
    CASE pressed_key = "K_UP" -> NORTH
      [] pressed_key = "K_RIGHT" -> EAST
      [] pressed_key = "K_DOWN" -> SOUTH
      [] pressed_key = "K_LEFT" -> WEST
      [] pressed_key = "K_SPACE" -> INTERACT
      [] pressed_key = "K_s" -> STAY
      [] OTHER -> STAY

\* on_event on the pair (self.joint_action, self._running)
on_event(st, event, pidx) ==
    LET ja == IF event.type = "KEYDOWN"
                THEN [st.joint_action EXCEPT
                        ![pidx] = PyInt(ACTION_TO_INDEX(KeyAction(event.key)))]
                ELSE st.joint_action
        run == IF event.type = "QUIT" THEN FALSE ELSE st._running
    IN  [joint_action |-> ja, _running |-> run]

RECURSIVE HandleEvents(_, _, _)
\* for event in pygame.event.get(): self.on_event(event, i)
HandleEvents(st, batch, pidx) ==
    IF batch = <<>> THEN st
    ELSE HandleEvents(on_event(st, Head(batch), pidx), Tail(batch), pidx)

(* ---------------------------------------------------------------------- *)
(* App.step_env, App.on_loop                                              *)
(* ---------------------------------------------------------------------- *)
\* the session is built with slowmo_rate=8; self.fps = 30 // slowmo_rate
slowmo_rate == 8
fps == 30 \div slowmo_rate

\* the quotient n / d of Python's true division, kept exact
Ratio(n, d) == [num |-> n, den |-> d]
LessEq(a, b) == a.num * b.den <= b.num * a.den

\* mutant: the time left is not clamped at zero
time_left_NoClamp(tick) == Ratio(1200 - tick, fps)

\* max((1200 - self.curr_tick) / self.fps, 0): max returns its first
\* argument unless the second is greater
time_left(tick) ==
    LET q == Ratio(1200 - tick, fps)
    IN  IF q.num >= 0 THEN q ELSE Ratio(0, 1)

\* self.curr_tick / self.fps
time_elapsed(tick) == Ratio(tick, fps)

\* the transition step_env logs; sc is self.score after the reward was added
Transition(ja, curr_reward, sc, tick) ==
    [joint_action |-> ja,
     reward |-> curr_reward,
     time_left |-> time_left(tick),
     score |-> sc,
     time_elapsed |-> time_elapsed(tick),
     cur_gameloop |-> tick,
     layout_name |-> layout_name,
     trial_id |-> 100]

\* mutant: the score is overwritten by the reward of the tick
ScoreAfter_Overwrite(sc, curr_reward) == curr_reward

\* self.score after step_env
ScoreAfter(sc, curr_reward) == sc + curr_reward

\* mutant: the transition is logged only while the environment runs on
TrajectoryAfter_SkipFirst(traj, collecting, transition) ==
    IF collecting /\ transition.cur_gameloop > 0 THEN Append(traj, transition) ELSE traj

\* self.trajectory after step_env
TrajectoryAfter(traj, collecting, transition) ==
    IF collecting THEN Append(traj, transition) ELSE traj

\* done as env.step returns it: the environment's own decision d, and done
\* at the latest when its horizon is reached
EnvDone(t, d) == d \/ t + 1 >= MaxTicks

\* step_env(ja) with the environment answering (sparse_r, d)
StepEnv(ja, sparse_r, d) ==
    LET curr_reward == sparse_r[1] + sparse_r[2]
        sc == ScoreAfter(score, curr_reward)
    IN  /\ score' = sc
        /\ trajectory' = TrajectoryAfter(trajectory, collect_trajectory,
                                         Transition(ja, curr_reward, sc, curr_tick))
        /\ env_t' = env_t + 1
        /\ env_done' = EnvDone(env_t, d)
        /\ env_joint_action' = ja
        /\ done_signalled' = (done_signalled \/ EnvDone(env_t, d))

\* mutant: on_loop leaves the buffer as it was
Cleared_Kept(ja) == ja

\* self.joint_action after on_loop
Cleared(ja) == [p \in {0, 1} |-> None]

\* on_loop with self.joint_action = ja; its assertion holds
OnLoop(ja, sparse_r, d) ==
    /\ \A p \in {0, 1} : ja[p] # None
    /\ StepEnv(ja, sparse_r, d)
    /\ joint_action' = Cleared(ja)
    /\ curr_tick' = curr_tick + 1
    /\ _running' = IF EnvDone(env_t, d) THEN FALSE ELSE _running

(* ---------------------------------------------------------------------- *)
(* App.save_trajectory, App.on_cleanup, App.on_render                     *)
(* ---------------------------------------------------------------------- *)
\* mutant: the display is never released
on_cleanup_Skipped(c) == c

\* on_cleanup: pygame.quit(), counted as a call
on_cleanup(c) == Bump(c, "on_cleanup")

\* the file f'{layout_name}.{trial_id}.pickle'
TrialFile(l, tid) == [stem |-> l, num |-> PyInt(tid)]

\* mutant: only the last transition reaches the frame
DataFrame_LastOnly(traj) == IF traj = <<>> THEN traj ELSE <<traj[Len(traj)]>>

\* the frame pickled by save_trajectory
DataFrame(traj) == traj

save_trajectory ==
    /\ pickles' = Append(pickles, [file |-> TrialFile(layout_name, trial_id),
                                   df |-> DataFrame(trajectory)])
    /\ data_dir' = data_dir \cup {TrialFile(layout_name, trial_id)}

(* ---------------------------------------------------------------------- *)
(* App.collection_execution                                               *)
(* ---------------------------------------------------------------------- *)
\* while (self._running): self.joint_action = [None, None]; for i in range(2)
CollectWhile ==
    /\ pc = "collect_while"
    /\ IF _running
         THEN /\ joint_action' = [p \in {0, 1} |-> None]
              /\ seat' = 0
              /\ pc' = "collect_render"
         ELSE /\ pc' = "collect_save"
              /\ UNCHANGED <<joint_action, seat>>
    /\ UNCHANGED <<agentVars, env_joint_action, done_signalled, mode, agent, traj_file, _running, score, curr_tick,
                   agent_action, collect_trajectory, trajectory, trial_id,
                   row_index, cursor, on_reset, events, env_t, env_done,
                   data_dir, pickles, predict_call, quit_received, count>>

\* self.on_render() at the head of a seat's turn
CollectRender ==
    /\ pc = "collect_render"
    /\ count' = Bump(count, "on_render")
    /\ pc' = "collect_wait"
    /\ UNCHANGED <<agentVars, env_joint_action, done_signalled, mode, agent, traj_file, _running, score, curr_tick,
                   joint_action, agent_action, collect_trajectory, trajectory,
                   trial_id, seat, row_index, cursor, on_reset, events, env_t,
                   env_done, data_dir, pickles, predict_call, quit_received>>

\* one pass of the body of "while self.joint_action[i] is None": every
\* queued event goes to on_event with the seat being waited for
CollectPoll ==
    /\ pc = "collect_wait"
    /\ joint_action[seat] = None
    /\ LET st == HandleEvents([joint_action |-> joint_action, _running |-> _running],
                              events, seat)
       IN  /\ joint_action' = st.joint_action
           /\ _running' = st._running
    /\ quit_received' = (quit_received \/ \E k \in 1..Len(events) : events[k] = QUIT)
    /\ events' = <<>>
    /\ UNCHANGED <<agentVars, env_joint_action, done_signalled, pc, mode, agent, traj_file, score, curr_tick, agent_action,
                   collect_trajectory, trajectory, trial_id, seat, row_index,
                   cursor, on_reset, env_t, env_done, data_dir, pickles,
                   predict_call, count>>

\* the wait of a seat ends: next seat, or on_loop after the second
CollectSeatDone ==
    /\ pc = "collect_wait"
    /\ joint_action[seat] # None
    /\ IF seat = 0
         THEN /\ seat' = 1
              /\ pc' = "collect_render"
         ELSE /\ pc' = "collect_loop"
              /\ UNCHANGED seat
    /\ UNCHANGED <<agentVars, env_joint_action, done_signalled, mode, agent, traj_file, _running, score, curr_tick,
                   joint_action, agent_action, collect_trajectory, trajectory,
                   trial_id, row_index, cursor, on_reset, events, env_t,
                   env_done, data_dir, pickles, predict_call, quit_received,
                   count>>

\* self.on_loop()
CollectOnLoop ==
    /\ pc = "collect_loop"
    /\ \E sparse_r \in SparseRewards, d \in BOOLEAN : OnLoop(joint_action, sparse_r, d)
    /\ count' = Bump(count, "env_step")
    /\ pc' = "collect_while"
    /\ UNCHANGED <<agentVars, mode, agent, traj_file, agent_action, collect_trajectory,
                   trial_id, seat, row_index, cursor, on_reset, events,
                   data_dir, pickles, predict_call, quit_received>>

\* self.on_loop() where self.env.step raises: nothing catches it in on_loop,
\* step_env or collection_execution, so it leaves the driver at once
CollectStepRaises ==
    /\ pc = "collect_loop"
    /\ pc' = "raised"
    /\ UNCHANGED <<agentVars, env_joint_action, done_signalled, mode, agent, traj_file, _running, score,
                   curr_tick, joint_action, agent_action, collect_trajectory,
                   trajectory, trial_id, seat, row_index, cursor, on_reset,
                   events, env_t, env_done, data_dir, pickles, predict_call,
                   quit_received, count>>

\* self.save_trajectory() after the loop
CollectSave ==
    /\ pc = "collect_save"
    /\ save_trajectory
    /\ count' = Bump(count, "save_trajectory")
    /\ pc' = "collect_cleanup"
    /\ UNCHANGED <<agentVars, env_joint_action, done_signalled, mode, agent, traj_file, _running, score, curr_tick,
                   joint_action, agent_action, collect_trajectory, trajectory,
                   trial_id, seat, row_index, cursor, on_reset, events, env_t,
                   env_done, predict_call, quit_received>>

\* self.on_cleanup() and the final print; pygame.quit() drops the queue
CollectCleanup ==
    /\ pc = "collect_cleanup"
    /\ count' = on_cleanup(count)
    /\ events' = <<>>
    /\ pc' = "done"
    /\ UNCHANGED <<agentVars, env_joint_action, done_signalled, mode, agent, traj_file, _running, score,
                   curr_tick, joint_action, agent_action, collect_trajectory,
                   trajectory, trial_id, seat, row_index, cursor, on_reset,
                   env_t, env_done, data_dir, pickles, predict_call,
                   quit_received>>

(* ---------------------------------------------------------------------- *)
(* App.replay_execution                                                   *)
(* ---------------------------------------------------------------------- *)
\* the row the iterrows loop is at
CurrentRow == trajectory[row_index]

\* mutant: the test forgets the environment's done flag
SameTrial_IgnoresDone(row, cur, done) == row.trial_id = cur

\* the test of the loop body: this row is a step of the current trial
SameTrial(row, cur, done) == row.trial_id = cur /\ ~done

\* trial_id = self.trajectory.iloc[0]['trial_id']
ReplayStart ==
    /\ pc = "replay_start"
    /\ ~collect_trajectory
    /\ trajectory # <<>>
    /\ cursor' = trajectory[1].trial_id
    /\ row_index' = 1
    /\ pc' = "replay_rows"
    /\ UNCHANGED <<agentVars, env_joint_action, done_signalled, mode, agent, traj_file, _running, score, curr_tick,
                   joint_action, agent_action, collect_trajectory, trajectory,
                   trial_id, seat, on_reset, events, env_t, env_done,
                   data_dir, pickles, predict_call, quit_received, count>>

\* .iloc[0] raises: self.trajectory is a list (traj_file == '') or the
\* filtered frame is empty
ReplayStartRaises ==
    /\ pc = "replay_start"
    /\ collect_trajectory \/ trajectory = <<>>
    /\ pc' = "raised"
    /\ UNCHANGED <<agentVars, env_joint_action, done_signalled, mode, agent, traj_file, _running, score, curr_tick,
                   joint_action, agent_action, collect_trajectory, trajectory,
                   trial_id, seat, row_index, cursor, on_reset, events, env_t,
                   env_done, data_dir, pickles, predict_call, quit_received,
                   count>>

\* if-branch: render, parse the stored joint action, on_loop
ReplayAdvance ==
    /\ pc = "replay_rows"
    /\ row_index <= Len(trajectory)
    /\ SameTrial(CurrentRow, cursor, env_done)
    /\ str_to_actions(CurrentRow.joint_action).ok
    /\ \E sparse_r \in SparseRewards, d \in BOOLEAN :
            OnLoop(str_to_actions(CurrentRow.joint_action).joint_action, sparse_r, d)
    /\ count' = Bump(Bump(count, "on_render"), "env_step")
    /\ row_index' = row_index + 1
    /\ UNCHANGED <<agentVars, pc, mode, agent, traj_file, agent_action,
                   collect_trajectory, trial_id, seat, cursor, on_reset,
                   events, data_dir, pickles, predict_call, quit_received>>

\* if-branch where str_to_actions raises after the render
ReplayParseRaises ==
    /\ pc = "replay_rows"
    /\ row_index <= Len(trajectory)
    /\ SameTrial(CurrentRow, cursor, env_done)
    /\ ~str_to_actions(CurrentRow.joint_action).ok
    /\ count' = Bump(count, "on_render")
    /\ pc' = "raised"
    /\ UNCHANGED <<agentVars, env_joint_action, done_signalled, mode, agent, traj_file, _running, score, curr_tick,
                   joint_action, agent_action, collect_trajectory, trajectory,
                   trial_id, seat, row_index, cursor, on_reset, events, env_t,
                   env_done, data_dir, pickles, predict_call, quit_received>>

\* if-branch where self.env.step raises inside on_loop, after the render
\* and the parse
ReplayStepRaises ==
    /\ pc = "replay_rows"
    /\ row_index <= Len(trajectory)
    /\ SameTrial(CurrentRow, cursor, env_done)
    /\ str_to_actions(CurrentRow.joint_action).ok
    /\ count' = Bump(count, "on_render")
    /\ pc' = "raised"
    /\ UNCHANGED <<agentVars, env_joint_action, done_signalled, mode, agent, traj_file, _running, score,
                   curr_tick, joint_action, agent_action, collect_trajectory,
                   trajectory, trial_id, seat, row_index, cursor, on_reset,
                   events, env_t, env_done, data_dir, pickles, predict_call,
                   quit_received>>

\* mutant: the boundary leaves the cursor on the old trial
BoundaryCursor_Kept(row, cur) == cur

\* trial_id = row['trial_id'] of the else-branch
BoundaryCursor(row, cur) == row.trial_id

\* else-branch: trial boundary
ReplayBoundary ==
    /\ pc = "replay_rows"
    /\ row_index <= Len(trajectory)
    /\ ~SameTrial(CurrentRow, cursor, env_done)
    /\ env_t' = 0
    /\ env_done' = FALSE
    /\ count' = Bump(count, "env_reset")
    /\ cursor' = BoundaryCursor(CurrentRow, cursor)
    /\ score' = 0
    /\ curr_tick' = 0
    /\ row_index' = row_index + 1
    /\ UNCHANGED <<agentVars, env_joint_action, done_signalled, pc, mode, agent, traj_file, _running, joint_action,
                   agent_action, collect_trajectory, trajectory, trial_id,
                   seat, on_reset, events, data_dir, pickles, predict_call,
                   quit_received>>

\* the log is exhausted: self.on_cleanup()
ReplayCleanup ==
    /\ pc = "replay_rows"
    /\ row_index > Len(trajectory)
    /\ count' = on_cleanup(count)
    /\ pc' = "done"
    /\ UNCHANGED <<agentVars, env_joint_action, done_signalled, mode, agent, traj_file, _running, score, curr_tick,
                   joint_action, agent_action, collect_trajectory, trajectory,
                   trial_id, seat, row_index, cursor, on_reset, events, env_t,
                   env_done, data_dir, pickles, predict_call, quit_received>>

(* ---------------------------------------------------------------------- *)
(* predict of the agents a session can be bound to                        *)
(* ---------------------------------------------------------------------- *)
\* the deterministic flag the delegate policy receives when predict is
\* called with the flag given
DelegateDeterministic(ag, deterministic) ==
    IF ag.t = "HumanManagerHRL" THEN TRUE ELSE deterministic

\* self.agent.predict(obs, state=self.env.state): deterministic is left to
\* its default
PredictArgs(ag) ==
    [deterministic |-> FALSE,
     delegate_deterministic |-> DelegateDeterministic(ag, FALSE)]

(* ---------------------------------------------------------------------- *)
(* App.play_execution                                                     *)
(* ---------------------------------------------------------------------- *)
PlayWhile ==
    /\ pc = "play_while"
    /\ pc' = IF _running THEN "play_obs" ELSE "play_cleanup"
    /\ UNCHANGED <<agentVars, env_joint_action, done_signalled, mode, agent, traj_file, _running, score, curr_tick,
                   joint_action, agent_action, collect_trajectory, trajectory,
                   trial_id, seat, row_index, cursor, on_reset, events, env_t,
                   env_done, data_dir, pickles, predict_call, quit_received,
                   count>>

\* obs = self.env.get_obs(self.env.p_idx, on_reset=on_reset); on_reset = False
PlayGetObs ==
    /\ pc = "play_obs"
    /\ count' = Bump(count, "get_obs")
    /\ on_reset' = FALSE
    /\ pc' = "play_predict"
    /\ UNCHANGED <<agentVars, env_joint_action, done_signalled, mode, agent, traj_file, _running, score, curr_tick,
                   joint_action, agent_action, collect_trajectory, trajectory,
                   trial_id, seat, row_index, cursor, events, env_t, env_done,
                   data_dir, pickles, predict_call, quit_received>>

\* self.agent_action = self.agent.predict(obs, state=self.env.state)[0]
PlayPredict ==
    /\ pc = "play_predict"
    /\ \E a \in PolicyActions : agent_action' = PyInt(a)
    /\ predict_call' = PredictArgs(agent)
    /\ count' = Bump(count, "predict")
    /\ pc' = "play_render"
    /\ UNCHANGED <<agentVars, env_joint_action, done_signalled, mode, agent, traj_file, _running, score, curr_tick,
                   joint_action, collect_trajectory, trajectory, trial_id,
                   seat, row_index, cursor, on_reset, events, env_t, env_done,
                   data_dir, pickles, quit_received>>

\* pygame.time.wait(sleep_time); self.on_render()
PlayRender ==
    /\ pc = "play_render"
    /\ count' = Bump(count, "on_render")
    /\ pc' = "play_step"
    /\ UNCHANGED <<agentVars, env_joint_action, done_signalled, mode, agent, traj_file, _running, score, curr_tick,
                   joint_action, agent_action, collect_trajectory, trajectory,
                   trial_id, seat, row_index, cursor, on_reset, events, env_t,
                   env_done, data_dir, pickles, predict_call, quit_received>>

\* done = self.step_env(self.agent_action); self.curr_tick += 1; if done
PlayStep ==
    /\ pc = "play_step"
    /\ \E sparse_r \in SparseRewards, d \in BOOLEAN :
            /\ StepEnv(agent_action, sparse_r, d)
            /\ _running' = IF EnvDone(env_t, d) THEN FALSE ELSE _running
    /\ curr_tick' = curr_tick + 1
    /\ count' = Bump(count, "env_step")
    /\ pc' = "play_while"
    /\ UNCHANGED <<agentVars, mode, agent, traj_file, joint_action, agent_action,
                   collect_trajectory, trial_id, seat, row_index, cursor,
                   on_reset, events, data_dir, pickles, predict_call,
                   quit_received>>

\* self.step_env(self.agent_action) where self.env.step raises
PlayStepRaises ==
    /\ pc = "play_step"
    /\ pc' = "raised"
    /\ UNCHANGED <<agentVars, env_joint_action, done_signalled, mode, agent, traj_file, _running, score,
                   curr_tick, joint_action, agent_action, collect_trajectory,
                   trajectory, trial_id, seat, row_index, cursor, on_reset,
                   events, env_t, env_done, data_dir, pickles, predict_call,
                   quit_received, count>>

PlayCleanup ==
    /\ pc = "play_cleanup"
    /\ count' = on_cleanup(count)
    /\ pc' = "done"
    /\ UNCHANGED <<agentVars, env_joint_action, done_signalled, mode, agent, traj_file, _running, score, curr_tick,
                   joint_action, agent_action, collect_trajectory, trajectory,
                   trial_id, seat, row_index, cursor, on_reset, events, env_t,
                   env_done, data_dir, pickles, predict_call, quit_received>>

(* ---------------------------------------------------------------------- *)
(* Specifications                                                         *)
(* ---------------------------------------------------------------------- *)
\* the steps of the driver itself
DriverNext ==
    \/ OnExecute
    \/ CollectWhile
    \/ CollectRender
    \/ CollectPoll
    \/ CollectSeatDone
    \/ CollectOnLoop
    \/ CollectStepRaises
    \/ CollectSave
    \/ CollectCleanup
    \/ ReplayStart
    \/ ReplayStartRaises
    \/ ReplayAdvance
    \/ ReplayParseRaises
    \/ ReplayStepRaises
    \/ ReplayBoundary
    \/ ReplayCleanup
    \/ PlayWhile
    \/ PlayGetObs
    \/ PlayPredict
    \/ PlayRender
    \/ PlayStep
    \/ PlayStepRaises
    \/ PlayCleanup

Next == DriverNext \/ EventArrives

Spec == Init /\ [][Next]_vars

\* the driver is a sequential program that runs whenever it can; nothing
\* obliges the window system to deliver an event
FairSpec == Spec /\ WF_vars(DriverNext)

(* ---------------------------------------------------------------------- *)
(* Properties                                                             *)
(* ---------------------------------------------------------------------- *)
Collecting == mode = "collect_data"

\* C1: the mode is replay whenever a trajectory file was given, play when
\* an agent and no file was given, collect_data when neither was given,
\* and no step of the session changes it.
C1_ModeChosenOnceFromInputs ==
    /\ [](/\ traj_file # None => mode = "replay"
          /\ traj_file = None /\ agent # None => mode = "play"
          /\ traj_file = None /\ agent = None => mode = "collect_data")
    /\ [][mode' = mode /\ traj_file' = traj_file /\ agent' = agent]_vars

\* a replay session that was also given an agent has run to its end
C1_Witness ==
    /\ pc = "done"
    /\ traj_file # None
    /\ agent # None
    /\ mode = "replay"
    /\ count["env_step"] > 0

\* C2: a collection never steps the environment unless both seats hold an
\* action; the step leaves the buffer empty for both seats, and a seat's
\* turn starts with that seat and the later one empty.
C2_StepConsumesBothSeats ==
    /\ [][(Collecting /\ count'["env_step"] # count["env_step"]) =>
            /\ \A p \in {0, 1} : joint_action[p] # None
            /\ env_joint_action' = joint_action
            /\ \A p \in {0, 1} : joint_action'[p] = None]_vars
    /\ []((Collecting /\ pc = "collect_render") =>
            \A p \in seat..1 : joint_action[p] = None)

\* a collection has stepped the environment twice
C2_Witness ==
    /\ Collecting
    /\ count["env_step"] >= 2
    /\ trajectory[1].joint_action # trajectory[2].joint_action

\* C3: in a collection each environment step appends one transition and
\* adds one to the tick counter, the trajectory is as long as the tick
\* counter at every tick boundary, and as long as the number of steps
\* played when the session ends on done.
C3_OneTransitionPerTick ==
    /\ [][(Collecting /\ count'["env_step"] # count["env_step"]) =>
            /\ count'["env_step"] = count["env_step"] + 1
            /\ Len(trajectory') = Len(trajectory) + 1
            /\ SubSeq(trajectory', 1, Len(trajectory)) = trajectory
            /\ curr_tick' = curr_tick + 1]_vars
    /\ [](Collecting => Len(trajectory) = curr_tick)
    /\ []((Collecting /\ pc = "done" /\ env_done) =>
            Len(trajectory) = count["env_step"])

\* a collection ended on done after two ticks
C3_Witness ==
    /\ Collecting
    /\ pc = "done"
    /\ env_done
    /\ ~quit_received
    /\ curr_tick >= 2

RECURSIVE SumRewards(_)
SumRewards(traj) ==
    IF traj = <<>> THEN 0 ELSE Head(traj).reward + SumRewards(Tail(traj))

\* C4: the score of each logged transition is the score of the one before
\* it (0 before the first) plus its own reward; the scores never decrease
\* and the session score is the sum of the rewards.
C4_ScoreIsRunningSum ==
    collect_trajectory =>
        /\ \A k \in 1..Len(trajectory) :
              /\ trajectory[k].score =
                    (IF k = 1 THEN 0 ELSE trajectory[k - 1].score) + trajectory[k].reward
              /\ k > 1 => trajectory[k].score >= trajectory[k - 1].score
        /\ score = SumRewards(trajectory)

\* two transitions were logged, the first with a reward
C4_Witness ==
    /\ Collecting
    /\ pc = "done"
    /\ Len(trajectory) >= 2
    /\ trajectory[1].reward > 0
    /\ trajectory[2].score > trajectory[2].reward

\* the trial numbers of the trial files of a listing, of every layout
TrialNumbers(listing) == {e.num.v : e \in {f \in listing : f.num # None}}

\* the trial numbers of the trial files of one layout
TrialNumbersOf(listing, l) ==
    {e.num.v : e \in {f \in listing : f.num # None /\ f.stem = l}}

\* C5 as claimed: a collection that ends on done pickles its trajectory
\* once, under <layout>.<trial id>, the trial id being one more than the
\* largest trial number of the files of that layout, or 1 without any.
C5_TrialIdPerLayout ==
    /\ (Collecting /\ pickles = <<>>) =>
            LET ns == TrialNumbersOf(data_dir, layout_name)
            IN  trial_id = IF ns = {} THEN 1 ELSE Max(ns) + 1
    /\ (Collecting /\ pc = "done" /\ env_done) =>
            /\ count["save_trajectory"] = 1
            /\ Len(pickles) = 1
            /\ pickles[1].file = [stem |-> layout_name, num |-> PyInt(trial_id)]
            /\ pickles[1].df = trajectory

\* C5 amended: the trial id is one more than the largest trial number of
\* all trial files of the data directory, whatever their layout, or 1
\* without any; the trajectory is pickled once under <layout>.<trial id>.
C5_TrialIdOverAllLayouts ==
    /\ (Collecting /\ pickles = <<>>) =>
            LET ns == TrialNumbers(data_dir)
            IN  /\ \A n \in ns : n < trial_id
                /\ trial_id = 1 \/ trial_id - 1 \in ns
                /\ ns = {} => trial_id = 1
    /\ (Collecting /\ pc = "done" /\ env_done) =>
            /\ count["save_trajectory"] = 1
            /\ Len(pickles) = 1
            /\ pickles[1].file = [stem |-> layout_name, num |-> PyInt(trial_id)]
            /\ pickles[1].df = trajectory

\* a collection ended on done with a trial id that follows the file of
\* another layout
C5_Witness ==
    /\ Collecting
    /\ pc = "done"
    /\ env_done
    /\ Len(pickles) = 1
    /\ TrialNumbersOf(data_dir, layout_name) = {trial_id}
    /\ \E e \in data_dir : e.stem # layout_name /\ e.num = PyInt(trial_id - 1)

\* C6 as claimed: a quit makes the running flag false; once the quit was
\* handled the collection renders no more before it leaves its loop, and
\* the session ends with one flush and one cleanup.
C6_NoRenderAfterQuit ==
    /\ []((Collecting /\ quit_received) => ~_running)
    /\ [][(Collecting /\ quit_received) =>
            count'["on_render"] = count["on_render"]]_vars
    /\ []((Collecting /\ pc = "done") =>
            count["save_trajectory"] = 1 /\ count["on_cleanup"] = 1)

\* C7 as claimed: once a quit was handled the collection reaches its end
\* without any further input (unless a failing environment step ends it
\* first).
C7_QuitTerminates == (Collecting /\ quit_received) ~> (pc \in {"done", "raised"})

\* C8: a collection that a quit ended with at least one transition logged
\* has pickled a frame that holds every logged transition in the order of
\* the ticks.
C8_QuitFlushesPartialTrajectory ==
    (Collecting /\ pc = "done" /\ quit_received /\ Len(trajectory) >= 1) =>
        /\ Len(pickles) = 1
        /\ Len(pickles[1].df) = count["env_step"]
        /\ \A k \in 1..Len(pickles[1].df) :
              /\ pickles[1].df[k] = trajectory[k]
              /\ pickles[1].df[k].cur_gameloop = k - 1

\* a quit ended a collection before the environment was done, with a
\* transition logged and pickled
C8_Witness ==
    /\ Collecting
    /\ pc = "done"
    /\ quit_received
    /\ ~env_done
    /\ Len(trajectory) >= 1
    /\ Len(pickles) = 1
    /\ Len(pickles[1].df) >= 1

Playing == mode = "play"

\* C9 as claimed: a tick of play fetches one observation, then calls
\* predict once, deterministically, then steps the environment once,
\* which logs one transition and adds one to the tick counter; the loop
\* ends after the first tick that reports done.
C9_PlayTickDeterministic ==
    Playing =>
        /\ count["get_obs"] = curr_tick + (IF pc \in {"play_predict", "play_render", "play_step"} THEN 1 ELSE 0)
        /\ count["predict"] = curr_tick + (IF pc \in {"play_render", "play_step"} THEN 1 ELSE 0)
        /\ count["env_step"] = curr_tick
        /\ Len(trajectory) = curr_tick
        /\ count["predict"] > 0 => predict_call.delegate_deterministic
        /\ env_done => pc \in {"play_while", "play_cleanup", "done"}
        /\ pc \in {"play_cleanup", "done"} => env_done

Replaying == mode = "replay"

\* a step of the iterrows loop: the row at row_index has been handled
RowHandled == Replaying /\ pc = "replay_rows" /\ row_index' = row_index + 1

\* C10: the cursor starts at the trial id of the first row; a row whose
\* trial id is the cursor, read while the environment is not done, steps
\* the environment with the row's parsed joint action and adds one to the
\* tick counter; any other row resets the environment, the tick counter
\* and the score and moves the cursor to the row's trial id; the
\* environment is never stepped while it is done.
C10_ReplayRowRules ==
    /\ []((Replaying /\ pc = "replay_rows" /\ row_index = 1) =>
            cursor = trajectory[1].trial_id)
    /\ [][RowHandled =>
            IF CurrentRow.trial_id = cursor /\ ~env_done
              THEN /\ count'["env_step"] = count["env_step"] + 1
                   /\ env_joint_action' = str_to_actions(CurrentRow.joint_action).joint_action
                   /\ curr_tick' = curr_tick + 1
                   /\ count'["env_reset"] = count["env_reset"]
                   /\ cursor' = cursor
              ELSE /\ count'["env_reset"] = count["env_reset"] + 1
                   /\ curr_tick' = 0
                   /\ score' = 0
                   /\ cursor' = CurrentRow.trial_id
                   /\ ~env_done'
                   /\ count'["env_step"] = count["env_step"]]_vars
    /\ [][(Replaying /\ (count'["env_step"] # count["env_step"]
                            \/ count'["env_reset"] # count["env_reset"])) =>
            RowHandled]_vars
    /\ [][(Replaying /\ count'["env_step"] # count["env_step"]) => ~env_done]_vars

\* a replay ran to the end of its log through a boundary made by the done
\* flag and a boundary made by a new trial id
C10_Witness ==
    /\ Replaying
    /\ pc = "done"
    /\ count["env_step"] >= 1
    /\ count["env_reset"] >= 2
    /\ Len(trajectory) >= 3
    /\ trajectory[1].trial_id = trajectory[2].trial_id
    /\ trajectory[2].trial_id # trajectory[3].trial_id

\* the positions of a log whose row bears another trial id than the row
\* before it
IdChanges(traj) == {k \in 2..Len(traj) : traj[k].trial_id # traj[k - 1].trial_id}

\* C11: while a log whose trial ids change exactly once, at row k, is
\* replayed and no environment step has reported done, the environment
\* has been reset once if row k was reached and not at all before; the
\* tick counter counts the rows stepped since then, and the score and the
\* tick counter are 0 right after row k.
C11_ResetOnceAtNewTrial ==
    (/\ Replaying
     /\ pc \in {"replay_rows", "done"}
     /\ Cardinality(IdChanges(trajectory)) = 1
     /\ ~done_signalled) =>
        LET k == CHOOSE c \in IdChanges(trajectory) : TRUE
        IN  /\ count["env_reset"] = (IF row_index > k THEN 1 ELSE 0)
            /\ curr_tick = (IF row_index > k THEN row_index - 1 - k ELSE row_index - 1)
            /\ row_index = k + 1 => (score = 0 /\ curr_tick = 0 /\ cursor = trajectory[k].trial_id)
            /\ row_index <= k => cursor = trajectory[1].trial_id

\* a replay of a log whose ids change once ran to its end without a done:
\* rows were stepped on both sides of the one reset
C11_Witness ==
    /\ Replaying
    /\ pc = "done"
    /\ ~done_signalled
    /\ Cardinality(IdChanges(trajectory)) = 1
    /\ count["env_reset"] = 1
    /\ count["env_step"] = Len(trajectory) - 1
    /\ Len(trajectory) = MaxLog

\* the number of rows of the last trial of a log
LastTrialRecords(traj) == Len(traj) + 1 - Max(IdChanges(traj) \cup {1})

\* C12 as claimed: the row that makes a trial boundary is stepped after the
\* reset, so when the replay has run through the log, the environment
\* never having reported done, every row was applied to the environment
\* once and the tick counter is the number of rows of the last trial.
C12_BoundaryRecordApplied ==
    (Replaying /\ pc = "done" /\ ~done_signalled) =>
        /\ count["env_step"] = Len(trajectory)
        /\ curr_tick = LastTrialRecords(trajectory)

\* C13: in each mode, a session that has stopped by leaving its loop (the
\* environment reported done, the log was exhausted, or a quit was acted
\* on) has called on_cleanup exactly once; on_cleanup is never called
\* twice, is the last call of the session, and no render follows it.
C13_CleanupOncePerExit ==
    /\ [](pc = "done" => count["on_cleanup"] = 1)
    /\ [](count["on_cleanup"] <= 1)
    /\ [](count["on_cleanup"] = 1 => (pc = "done" /\ count["on_init"] = 1))
    /\ [][count["on_cleanup"] >= 1 => count'["on_render"] = count["on_render"]]_vars

\* a collection stopped by a quit, not by the environment, after renders
C13_Witness ==
    /\ Collecting
    /\ pc = "done"
    /\ quit_received
    /\ ~env_done
    /\ count["on_render"] >= 2
    /\ count["on_cleanup"] = 1

\* sessions of the other two modes that stopped after renders
C13_WitnessPlay == Playing /\ pc = "done" /\ count["on_render"] >= 1 /\ count["on_cleanup"] = 1
C13_WitnessReplay == Replaying /\ pc = "done" /\ count["on_render"] >= 1 /\ count["on_cleanup"] = 1

\* C14 as claimed: a collection that an environment step's failure has
\* ended after at least one tick has written its trajectory, with every
\* transition logged before the failing tick, once.
C14_StepFailureFlushes ==
    (Collecting /\ pc = "raised" /\ trajectory # <<>>) =>
        /\ count["save_trajectory"] = 1
        /\ Len(pickles) = 1
        /\ pickles[1].df = DataFrame(trajectory)

\* the parsed elements a cell can hold, and the cells made of them: a JSON
\* document holds no tuple
ParseElements == {PyList("0,-1"), PyList("5,5"), PyTuple("0,1"), PyTuple("5,5"),
                  PyStr("INTERACT"), PyStr("interact"), PyStr("jump")}
ParseCells == {Cell(sx, a, b) : sx \in {"json", "literal_list", "literal_tuple"},
                                a \in ParseElements, b \in ParseElements}
                \ {c \in {Cell("json", a, b) : a \in ParseElements, b \in ParseElements} :
                        \E k \in 1..2 : c.elems[k].t = "tuple"}

\* an element as the claim normalises it, and the legal action set
Normalised(e) ==
    IF e.t = "list" THEN PyTuple(e.v)
    ELSE IF e.t = "str" THEN PyStr(lower(e.v))
    ELSE e
Legal(e) == e \in {ALL_ACTIONS[k] : k \in 1..Len(ALL_ACTIONS)}

\* the row the replay is at is one of the current trial whose joint action
\* does not parse
AtInvalidRow ==
    /\ Replaying
    /\ pc = "replay_rows"
    /\ row_index <= Len(trajectory)
    /\ SameTrial(CurrentRow, cursor, env_done)
    /\ ~str_to_actions(CurrentRow.joint_action).ok

\* C15: a joint action that parses holds, for both elements, the normalised
\* element (a list as a tuple, a string in lower case), which is a legal
\* action, and parsing fails whenever a normalised element is not legal; a
\* replay at a row that fails this steps neither the environment nor the
\* tick counter, and a replay that has raised has handled the rows before
\* the one it is at and no more.
C15_InvalidRecordNeverApplied ==
    /\ \A cell \in ParseCells \cup Cells :
            LET r == str_to_actions(cell)
            IN  /\ r.ok => \A p \in {0, 1} :
                        /\ r.joint_action[p] = Normalised(cell.elems[p + 1])
                        /\ Legal(r.joint_action[p])
                /\ (\E p \in {0, 1} : ~Legal(Normalised(cell.elems[p + 1]))) => ~r.ok
    /\ [][AtInvalidRow =>
            /\ count'["env_step"] = count["env_step"]
            /\ curr_tick' = curr_tick
            /\ env_joint_action' = env_joint_action
            /\ row_index' = row_index]_vars
    /\ []((Replaying /\ pc = "raised" /\ row_index >= 1) =>
            count["env_step"] + count["env_reset"] = row_index - 1)

\* a replay stepped a row and then raised at a row that does not parse,
\* after rendering for it
C15_Witness ==
    /\ Replaying
    /\ pc = "raised"
    /\ row_index >= 2
    /\ ~str_to_actions(CurrentRow.joint_action).ok
    /\ count["env_step"] = row_index - 1
    /\ count["on_render"] = row_index
    /\ curr_tick = row_index - 1

(* ---------------------------------------------------------------------- *)
(* oai_agents/agents/base_agent.py: the agents                            *)
(* ---------------------------------------------------------------------- *)
\* the concrete agent classes of the sources
AgentTypes == {"SB3Wrapper", "SB3LSTMWrapper", "HumanManagerHRL"}

\* the parameter states (weights) a policy can hold; 0 is the state of a
\* freshly constructed policy
Weights == {1, 2}

\* the numbers a human enters at the prompt of HumanManagerHRL, which
\* asks for 0-10
SubtaskInputs == {10, 12}

\* the hidden states of a recurrent policy are the residues of HiddenMod
HiddenMod == 3

\* a new object of class T: OAIAgent.__init__, SB3LSTMWrapper.__init__,
\* HumanManagerHRL.__init__
NewAgent(T, name, w) ==
    [type |-> T,
     name |-> IF T = "HumanManagerHRL" THEN "hierarchical_rl" ELSE name,
     p_idx |-> None,
     weights |-> w,
     lstm_states |-> None,
     curr_subtask_id |-> 11]

\* obs['player_completed_subtasks']: None, or a vector with n ones
Completed(n) == [t |-> "ndarray", sum |-> n]

\* raw environment states and the observations encoded from them
RawStates == {[x |-> 0, completed |-> None], [x |-> 1, completed |-> Completed(0)],
              [x |-> 0, completed |-> Completed(1)]}
encoding_fn(overcooked_state, p) ==
    [x |-> (overcooked_state.x + p) % 2, completed |-> overcooked_state.completed]
Observations == {encoding_fn(r, p) : r \in RawStates, p \in {0, 1}}

\* the recurrent state and the episode_start values a caller passes
States == {None, PyInt(1)}
EpisodeStarts == {None, PyBool(FALSE), PyBool(TRUE)}

\* Python truth of an episode_start argument (None, False, True)
Truthy(x) == x # None /\ x # PyBool(FALSE)

\* the wrapped policy's predict: with episode_start asserted, or without
\* a state, the hidden state starts from zero; sample is the action drawn
\* when the call is not deterministic
DelegatePredict(recurrent, w, x, state, episode_start, deterministic, sample) ==
    LET h0 == IF state = None \/ Truthy(episode_start) THEN 0 ELSE state.v
        h1 == (h0 + x + w) % HiddenMod
    IN  [action |-> IF deterministic THEN (IF recurrent THEN h1 ELSE (x + w) % HiddenMod)
                    ELSE sample,
         state |-> IF recurrent THEN PyInt(h1) ELSE state,
         call |-> [state |-> state, episode_start |-> episode_start,
                   deterministic |-> deterministic]]

\* episode_start or np.ones((1,), dtype=bool)
EpisodeStartPassed(episode_start) ==
    IF Truthy(episode_start) THEN episode_start ELSE PyBool(TRUE)

\* the keys of an observation dict beside the encoded state
ObsKeys == {"player_completed_subtasks", "teammate_completed_subtasks"}

\* the observation dict a worker or a wrapped policy is handed
WorkerObs(obs, keys) == [x |-> obs.x, keys |-> keys]

\* np.sum(obs['player_completed_subtasks']) == 1 (np.sum(None) is None)
PromptsInPredict(obs) == obs.completed # None /\ obs.completed.sum = 1

\* obs['player_completed_subtasks'] is not None
PromptsInGetDistribution(obs) == obs.completed # None

\* predict of the class of ag; next_st is what int(input()) returns. The
\* result holds the object after the call, what the call returns, and the
\* arguments the wrapped policy's predict was called with.
predict(ag, obs, state, episode_start, deterministic, sample, next_st) ==
    CASE ag.type = "SB3Wrapper" ->
            LET r == DelegatePredict(FALSE, ag.weights, obs.x, state, episode_start,
                                     deterministic, sample)
            IN  [agent |-> ag, action |-> r.action, state |-> r.state, call |-> r.call,
                 worker_obs |-> WorkerObs(obs, ObsKeys)]
      [] ag.type = "SB3LSTMWrapper" ->
            LET r == DelegatePredict(TRUE, ag.weights, obs.x, state,
                                     EpisodeStartPassed(episode_start),
                                     deterministic, sample)
            IN  [agent |-> [ag EXCEPT !.lstm_states = r.state],
                 action |-> r.action, state |-> r.state, call |-> r.call,
                 worker_obs |-> WorkerObs(obs, ObsKeys)]
      [] ag.type = "HumanManagerHRL" ->
            LET st == IF PromptsInPredict(obs) THEN next_st ELSE ag.curr_subtask_id
                r == DelegatePredict(FALSE, ag.weights, obs.x + st, state, episode_start,
                                     TRUE, sample)
            IN  [agent |-> [ag EXCEPT !.curr_subtask_id = st],
                 action |-> r.action, state |-> r.state, call |-> r.call,
                 worker_obs |-> WorkerObs(obs, {"curr_subtask"}) @@ [curr_subtask |-> st]]

\* get_distribution of the class of ag: the manager asks for the next
\* subtask and sets obs['curr_subtask']; no key is popped
get_distribution(ag, obs, next_st) ==
    IF ag.type = "HumanManagerHRL"
      THEN LET st == IF PromptsInGetDistribution(obs) THEN next_st
                     ELSE ag.curr_subtask_id
           IN  [agent |-> [ag EXCEPT !.curr_subtask_id = st],
                worker_obs |-> WorkerObs(obs, ObsKeys \cup {"curr_subtask"})
                                    @@ [curr_subtask |-> st]]
      ELSE [agent |-> ag, worker_obs |-> WorkerObs(obs, ObsKeys)]

\* Action.INDEX_TO_ACTION
INDEX_TO_ACTION(k) == ALL_ACTIONS[k + 1]

(* ---------------------------------------------------------------------- *)
(* Checkpoints on the file system                                         *)
(* ---------------------------------------------------------------------- *)
\* a path is the sequence of its components; the root directory exists
Parent(path) == SubSeq(path, 1, Len(path) - 1)
IsDir(f, path) == path = <<>> \/ path \in f.dirs
IsFile(f, path) == \E e \in f.files : e.path = path
ReadFile(f, path) == (CHOOSE e \in f.files : e.path = path).data

\* th.save(data, path): open(path, 'wb') needs the parent directory and
\* refuses a directory
WriteFile(f, path, data) ==
    IF path = <<>> \/ ~IsDir(f, Parent(path)) \/ IsDir(f, path)
      THEN [ok |-> FALSE, fs |-> f]
      ELSE [ok |-> TRUE,
            fs |-> [f EXCEPT !.files = {e \in @ : e.path # path}
                                         \cup {[path |-> path, data |-> data]}]]

\* str(save_path) + '_sb3_agent'
Sb3Path(save_path) ==
    [save_path EXCEPT ![Len(save_path)] = "agent_file_sb3_agent"]

\* OAIAgent.save
OAIAgent_save(ag, path, f) ==
    WriteFile(f, path, [agent_type |-> ag.type, state_dict |-> ag.weights,
                        const_params |-> [name |-> ag.name]])

\* SB3Wrapper.save: the wrapper record, then the wrapped agent's own file
\* (stable-baselines creates missing directories for it)
SB3Wrapper_save(ag, path, f) ==
    LET save_path == Append(path, "agent_file")
        w1 == WriteFile(f, save_path,
                        [agent_type |-> ag.type, sb3_model_type |-> "sb3",
                         const_params |-> [name |-> ag.name]])
    IN  IF ~w1.ok THEN w1
        ELSE WriteFile(w1.fs, Sb3Path(save_path), [sb3_weights |-> ag.weights])

\* agent.save(path) by the class of the agent
save(ag, path, f) ==
    IF ag.type = "HumanManagerHRL" THEN OAIAgent_save(ag, path, f)
    ELSE SB3Wrapper_save(ag, path, f)

NotLoaded == [ok |-> FALSE, agent |-> None]

\* OAIAgent.load called on cls: HumanManagerHRL.__init__ takes (worker,
\* args), so cls(**const_params) with a name raises TypeError
OAIAgent_load(cls, path, f) ==
    IF ~IsFile(f, path) THEN NotLoaded
    ELSE IF cls = "HumanManagerHRL" THEN NotLoaded
    ELSE LET saved_variables == ReadFile(f, path)
         IN  [ok |-> TRUE,
              agent |-> NewAgent(cls, saved_variables.const_params.name,
                                 saved_variables.state_dict)]

\* SB3Wrapper.load called on cls
SB3Wrapper_load(cls, path, f) ==
    LET load_path == Append(path, "agent_file")
    IN  IF ~IsFile(f, load_path) THEN NotLoaded
        ELSE IF ~IsFile(f, Sb3Path(load_path)) THEN NotLoaded
        ELSE [ok |-> TRUE,
              agent |-> NewAgent(cls, ReadFile(f, load_path).const_params.name,
                                 ReadFile(f, Sb3Path(load_path)).sb3_weights)]

\* cls.load(path, args)
load(cls, path, f) ==
    IF cls = "HumanManagerHRL" THEN OAIAgent_load(cls, path, f)
    ELSE SB3Wrapper_load(cls, path, f)

(* ---------------------------------------------------------------------- *)
(* An agent object and the calls made on it                               *)
(* ---------------------------------------------------------------------- *)
\* no session runs beside the agent or the trainer
NoSession ==
    /\ pc = "no_session"
    /\ mode = "collect_data"
    /\ agent = None
    /\ traj_file = None
    /\ _running = FALSE
    /\ score = 0
    /\ curr_tick = 0
    /\ joint_action = [p \in {0, 1} |-> None]
    /\ agent_action = None
    /\ collect_trajectory = FALSE
    /\ trajectory = <<>>
    /\ trial_id = 0
    /\ seat = 0
    /\ row_index = 0
    /\ cursor = 0
    /\ on_reset = TRUE
    /\ events = <<>>
    /\ env_t = 0
    /\ env_done = FALSE
    /\ data_dir = {}
    /\ pickles = <<>>
    /\ predict_call = None
    /\ quit_received = FALSE
    /\ env_joint_action = None
    /\ done_signalled = FALSE
    /\ count = [c \in Callees |-> 0]

\* the directory an agent is saved under
CkptPath == <<"ckpt">>

\* the actions a policy samples when it is not called deterministically
PolicySamples == {0, 2}

\* the draws a predict call of ag consumes: a sampled action when the
\* wrapped policy is not called deterministically, an answer at the prompt
\* when the manager sees a completed subtask
SamplesFor(ag, deterministic) ==
    IF deterministic \/ ag.type = "HumanManagerHRL" THEN {0} ELSE PolicySamples
InputsFor(ag, obs) ==
    IF ag.type = "HumanManagerHRL" /\ PromptsInPredict(obs) THEN SubtaskInputs
    ELSE {ag.curr_subtask_id}
InputsForGetDistribution(ag, obs) ==
    IF ag.type = "HumanManagerHRL" /\ PromptsInGetDistribution(obs) THEN SubtaskInputs
    ELSE {ag.curr_subtask_id}

\* an agent of some class is constructed; the directory of its checkpoint
\* may exist or not
AgentInit ==
    /\ NoSession
    /\ \E T \in AgentTypes, w \in Weights : oai_agent = NewAgent(T, "agent", w)
    /\ loaded = None
    /\ trainer_agents = <<>>
    /\ \E dirs \in SUBSET {CkptPath} : fs = [files |-> {}, dirs |-> dirs]
    /\ ret = None

\* OAIAgent.set_idx
SetIdx ==
    /\ oai_agent # None
    /\ \E p \in {0, 1} :
        /\ oai_agent' = [oai_agent EXCEPT !.p_idx = PyInt(p)]
        /\ ret' = [op |-> "set_idx", p_idx |-> PyInt(p)]
    /\ UNCHANGED <<sessionVars, loaded, trainer_agents, fs>>

\* mutant: action encodes for seat 0 whatever the bound seat is
ActionSeat_Zero(ag) == 0

\* the p_idx action passes to the encoding function
ActionSeat(ag) == ag.p_idx.v

\* OAIAgent.action
Action ==
    /\ oai_agent # None
    /\ \E overcooked_state \in RawStates :
       \E next_st \in InputsFor(oai_agent, overcooked_state) :
        IF oai_agent.p_idx = None
          THEN /\ ret' = [op |-> "action", raised |-> TRUE, raw |-> overcooked_state,
                          encoded_with |-> None, call |-> None, value |-> None]
               /\ UNCHANGED oai_agent
          ELSE LET obs == encoding_fn(overcooked_state, ActionSeat(oai_agent))
                   r == predict(oai_agent, obs, None, None, TRUE, 0, next_st)
               IN  /\ oai_agent' = r.agent
                   /\ ret' = [op |-> "action", raised |-> FALSE, raw |-> overcooked_state,
                              encoded_with |-> PyInt(ActionSeat(oai_agent)),
                              call |-> [obs |-> obs, deterministic |-> TRUE,
                                        index |-> r.action],
                              value |-> INDEX_TO_ACTION(r.action)]
    /\ UNCHANGED <<sessionVars, loaded, trainer_agents, fs>>

\* agent.predict(obs, state, episode_start, deterministic) by any caller
Predict ==
    /\ oai_agent # None
    /\ \E obs \in Observations, state \in States, episode_start \in EpisodeStarts,
          deterministic \in BOOLEAN :
       \E sample \in SamplesFor(oai_agent, deterministic),
          next_st \in InputsFor(oai_agent, obs) :
        LET r == predict(oai_agent, obs, state, episode_start, deterministic,
                         sample, next_st)
        IN  /\ oai_agent' = r.agent
            /\ ret' = [op |-> "predict", raised |-> FALSE, bound |-> oai_agent.p_idx # None,
                       obs |-> obs, state |-> state, episode_start |-> episode_start,
                       deterministic |-> deterministic,
                       action |-> r.action, new_state |-> r.state, call |-> r.call,
                       worker_obs |-> r.worker_obs]
    /\ UNCHANGED <<sessionVars, loaded, trainer_agents, fs>>

\* agent.get_distribution(obs) by any caller
GetDistribution ==
    /\ oai_agent # None
    /\ \E obs \in Observations :
       \E next_st \in InputsForGetDistribution(oai_agent, obs) :
        LET r == get_distribution(oai_agent, obs, next_st)
        IN  /\ oai_agent' = r.agent
            /\ ret' = [op |-> "get_distribution", raised |-> FALSE, obs |-> obs,
                       worker_obs |-> r.worker_obs]
    /\ UNCHANGED <<sessionVars, loaded, trainer_agents, fs>>

\* agent.save(path)
Save ==
    /\ oai_agent # None
    /\ LET w == save(oai_agent, CkptPath, fs)
       IN  /\ fs' = w.fs
           /\ ret' = [op |-> "save", raised |-> ~w.ok]
    /\ UNCHANGED <<sessionVars, oai_agent, loaded, trainer_agents>>

\* cls.load(path, args) for a class cls the caller names
Load ==
    /\ oai_agent # None
    /\ \E cls \in AgentTypes :
        LET l == load(cls, CkptPath, fs)
        IN  /\ loaded' = l.agent
            /\ ret' = [op |-> "load", raised |-> ~l.ok, cls |-> cls]
    /\ UNCHANGED <<sessionVars, oai_agent, trainer_agents, fs>>

AgentNext == SetIdx \/ Action \/ Predict \/ GetDistribution \/ Save \/ Load

AgentSpec == AgentInit /\ [][AgentNext]_vars

(* ---------------------------------------------------------------------- *)
(* Properties of the agents                                               *)
(* ---------------------------------------------------------------------- *)
\* the last call was op
Called(op) == ret # None /\ ret.op = op

\* C16: action on an agent whose p_idx is None raises before the encoding
\* function and predict are called and leaves the object as it was; on an
\* agent bound to seat p it does not raise, encodes the raw state with p,
\* calls predict with deterministic=True and returns the action that
\* INDEX_TO_ACTION gives for the index predict returned.
C16_ActionNeedsBoundSeat ==
    /\ [](Called("action") =>
            IF ret.raised
              THEN ret.encoded_with = None /\ ret.call = None /\ ret.value = None
              ELSE /\ ret.encoded_with = oai_agent.p_idx
                   /\ ret.call.obs = encoding_fn(ret.raw, oai_agent.p_idx.v)
                   /\ ret.call.deterministic
                   /\ ret.value = ALL_ACTIONS[ret.call.index + 1])
    /\ [][(ret'.op = "action" /\ ret' # ret) =>
            /\ ret'.raised <=> oai_agent.p_idx = None
            /\ ret'.raised => oai_agent' = oai_agent]_vars

\* action returned an action for an agent bound to seat 1
C16_Witness ==
    /\ Called("action")
    /\ ~ret.raised
    /\ oai_agent.p_idx = PyInt(1)
    /\ Legal(ret.value)

\* action raised on an agent that was never bound
C16_WitnessUnbound == Called("action") /\ ret.raised /\ oai_agent.p_idx = None

\* C17 as claimed: a predict call on an agent whose p_idx is None raises,
\* whatever the class of the agent, and returns no action.
C17_PredictNeedsBoundSeat ==
    (Called("predict") /\ ~ret.bound) => (ret.raised /\ ret.action = None)

\* C18 as claimed: the recurrent wrapper asserts episode_start to its
\* policy only on the calls where its caller asserted it, so a call with
\* episode_start absent or false reaches the policy with the flag not
\* asserted and the hidden state it was given is carried into the call.
C18_HiddenStateThreaded ==
    (Called("predict") /\ oai_agent.type = "SB3LSTMWrapper") =>
        (Truthy(ret.call.episode_start) <=> Truthy(ret.episode_start))

\* the files save writes for ag are all on the file system
CheckpointPresent(ag, f) ==
    IF ag.type = "HumanManagerHRL" THEN IsFile(f, CkptPath)
    ELSE /\ IsFile(f, Append(CkptPath, "agent_file"))
         /\ IsFile(f, Sb3Path(Append(CkptPath, "agent_file")))

\* C19 as claimed: load, called on the class of the agent that save wrote
\* the checkpoint of, returns an agent of that class with the same name and
\* the same weights, whose deterministic predict gives the same action and
\* the same new hidden state on every observation.
C19_LoadRestoresSavedAgent ==
    (/\ Called("load")
     /\ ret.cls = oai_agent.type
     /\ CheckpointPresent(oai_agent, fs)) =>
        /\ ~ret.raised
        /\ loaded.type = oai_agent.type
        /\ loaded.name = oai_agent.name
        /\ loaded.weights = oai_agent.weights
        /\ \A obs \in Observations, state \in States, episode_start \in EpisodeStarts :
            LET a == predict(oai_agent, obs, state, episode_start, TRUE, 0, 0)
                b == predict(loaded, obs, state, episode_start, TRUE, 0, 0)
            IN  a.action = b.action /\ a.state = b.state

(* ---------------------------------------------------------------------- *)
(* oai_agents/agents/base_agent.py: OAITrainer                            *)
(* ---------------------------------------------------------------------- *)
\* the largest number of agents of a trainer
MaxAgents == 2

\* path / tag is the root of the file system
TrainerFile == <<"trainer_file">>
AgentsDir == <<"agents_dir">>

\* f'agent_{i}'
AgentFn(i) == "agent_" \o ToString(i)

\* Path(agent_path).mkdir(parents=True, exist_ok=True)
Mkdir(f, path) == [f EXCEPT !.dirs = @ \cup {path}]

\* the loop of save_agents entered at index i: agent.save(agent_path_i),
\* then save_dict['agent_paths'].append(...), which raises KeyError since
\* save_dict holds the keys 'model_type' and 'agent_fns'; so the first
\* pass through the body is the last. The result is the file system the
\* loop leaves and whether it ran to its end.
SaveEach(agents, i, f) ==
    IF i >= Len(agents) THEN [ok |-> TRUE, fs |-> f]
    ELSE LET w == save(agents[i + 1], Append(AgentsDir, AgentFn(i)), f)
         IN  [ok |-> FALSE, fs |-> w.fs]

\* OAITrainer.save_agents: th.save(save_dict, save_path) follows the loop
\* (type(self.agents[0]) raises IndexError on an empty list)
save_agents(agents, f) ==
    LET save_dict == [model_type |-> agents[1].type, agent_fns |-> <<>>]
        looped == SaveEach(agents, 0, Mkdir(f, AgentsDir))
    IN  IF agents = <<>> THEN [ok |-> FALSE, fs |-> Mkdir(f, AgentsDir)]
        ELSE IF ~looped.ok THEN looped
        ELSE WriteFile(looped.fs, TrainerFile, save_dict)

RECURSIVE LoadEach(_, _, _)
\* the loop of load_agents over saved_variables['agent_fns']
LoadEach(model_type, agent_fns, f) ==
    IF agent_fns = <<>> THEN [ok |-> TRUE, agents |-> <<>>]
    ELSE LET l == load(model_type, Append(AgentsDir, Head(agent_fns)), f)
             rest == LoadEach(model_type, Tail(agent_fns), f)
         IN  IF l.ok /\ rest.ok
               THEN [ok |-> TRUE, agents |-> <<l.agent>> \o rest.agents]
               ELSE [ok |-> FALSE, agents |-> <<>>]

\* OAITrainer.load_agents
load_agents(f) ==
    IF ~IsFile(f, TrainerFile) THEN [ok |-> FALSE, agents |-> <<>>]
    ELSE LET saved_variables == ReadFile(f, TrainerFile)
         IN  LoadEach(saved_variables.model_type, saved_variables.agent_fns, f)

RECURSIVE CheckpointsOf(_, _, _)
\* the file system after the agents from index i on were saved under
\* agents_dir/agent_i with the directories in place
CheckpointsOf(agents, i, f) ==
    IF i >= Len(agents) THEN f
    ELSE LET dir == Append(AgentsDir, AgentFn(i))
             made == IF agents[i + 1].type = "HumanManagerHRL" THEN f ELSE Mkdir(f, dir)
         IN  CheckpointsOf(agents, i + 1, save(agents[i + 1], dir, made).fs)

\* a file system left by a writer that keeps the manifest under
\* 'agent_fns', listing n of the agents it saved
OnDisk(agents, n) ==
    WriteFile(CheckpointsOf(agents, 0, Mkdir([files |-> {}, dirs |-> {}], AgentsDir)),
              TrainerFile,
              [model_type |-> agents[1].type,
               agent_fns |-> [k \in 1..n |-> AgentFn(k - 1)]]).fs

\* the agent lists a trainer can hold
AgentLists ==
    {s \in SeqsUpTo({NewAgent(T, "agent", w) : T \in AgentTypes, w \in Weights}, MaxAgents) :
        s # <<>>}

\* a trainer holds its agents; the directory is empty or holds what an
\* earlier run left
TrainerInit ==
    /\ NoSession
    /\ oai_agent = None
    /\ loaded = None
    /\ trainer_agents \in AgentLists
    /\ \/ fs = [files |-> {}, dirs |-> {}]
       \/ \E n \in 0..MaxAgents + 1 : fs = OnDisk(<<NewAgent("SB3Wrapper", "agent", 1),
                                              NewAgent("SB3LSTMWrapper", "agent", 2)>>,
                                            n)
    /\ ret = None

SaveAgents ==
    /\ LET w == save_agents(trainer_agents, fs)
       IN  /\ fs' = w.fs
           /\ ret' = [op |-> "save_agents", raised |-> ~w.ok]
    /\ UNCHANGED <<sessionVars, oai_agent, loaded, trainer_agents>>

LoadAgents ==
    /\ LET l == load_agents(fs)
       IN  /\ trainer_agents' = IF l.ok THEN l.agents ELSE trainer_agents
           /\ ret' = [op |-> "load_agents", raised |-> ~l.ok]
    /\ UNCHANGED <<sessionVars, oai_agent, loaded, fs>>

TrainerNext == SaveAgents \/ LoadAgents

TrainerSpec == TrainerInit /\ [][TrainerNext]_vars

\* C20 as claimed: save_agents on a trainer of N >= 1 agents returns, and
\* leaves a manifest that lists agent_0 .. agent_{N-1} in order and a
\* checkpoint for each of them.
C20_SaveAgentsWritesManifest ==
    (Called("save_agents") /\ Len(trainer_agents) >= 1) =>
        /\ ~ret.raised
        /\ IsFile(fs, TrainerFile)
        /\ LET manifest == ReadFile(fs, TrainerFile)
           IN  manifest.agent_fns = [k \in 1..Len(trainer_agents) |-> AgentFn(k - 1)]
        /\ \A k \in 1..Len(trainer_agents) :
                \/ IsFile(fs, Append(AgentsDir, AgentFn(k - 1)))
                \/ IsFile(fs, <<"agents_dir", AgentFn(k - 1), "agent_file">>)

\* the entries of the agents directory: the files and directories right
\* under it
AgentsDirEntries(f) ==
    {e.path : e \in {x \in f.files : Len(x.path) = 2 /\ Parent(x.path) = AgentsDir}}
        \cup {d \in f.dirs : Len(d) = 2 /\ Parent(d) = AgentsDir}

\* C21 as claimed: a load_agents call that found a manifest listing another
\* number of agent paths than the agents directory holds checkpoints has
\* raised.
C21_ManifestMismatchRaises ==
    (/\ Called("load_agents")
     /\ IsFile(fs, TrainerFile)
     /\ Len(ReadFile(fs, TrainerFile).agent_fns) # Cardinality(AgentsDirEntries(fs))) =>
        ret.raised

\* ---- the human-directed manager (HumanManagerHRL) ----

IsManager == oai_agent # None /\ oai_agent.type = "HumanManagerHRL"

\* a completion signal that reports no completed subtask
EmptySignal(c) == c = None \/ c.sum = 0

\* the calls that reach the manager's predict or get_distribution, and the
\* completion signal of the observation they were made with
ManagerCall(r) == r # None /\ r.op \in {"predict", "get_distribution", "action"} /\ ~r.raised
SignalOf(r) == IF r.op = "action" THEN r.raw.completed ELSE r.obs.completed

\* C22 as claimed: the manager's current subtask id starts at 11 and changes
\* only during a predict or get_distribution call whose observation carries
\* a non-empty completed-subtasks signal; a call with an empty signal leaves
\* the id as it was.
C22_SubtaskChangesOnlyOnCompletion ==
    /\ IsManager => oai_agent.curr_subtask_id = 11
    /\ [][(IsManager /\ oai_agent'.curr_subtask_id # oai_agent.curr_subtask_id) =>
            (ManagerCall(ret') /\ ~EmptySignal(SignalOf(ret')))]_vars

(* ---------------------------------------------------------------------- *)
(* The clock fields of the logged transitions                             *)
(* ---------------------------------------------------------------------- *)
\* the ticks a collecting session has reached when the loop is observed:
\* its start, and just below and at the 1200 of time_left
StartTicks == {0, 1199, 1200}

\* a collecting session at one of these ticks, nothing logged yet
LoopInit ==
    /\ NoAgent
    /\ pc = "collect_loop"
    /\ mode = "collect_data"
    /\ agent = None
    /\ traj_file = None
    /\ _running = TRUE
    /\ score = 0
    /\ curr_tick \in StartTicks
    /\ joint_action = [p \in {0, 1} |-> None]
    /\ agent_action = None
    /\ collect_trajectory = TRUE
    /\ trajectory = <<>>
    /\ trial_id = 1
    /\ seat = 0
    /\ row_index = 0
    /\ cursor = 0
    /\ on_reset = TRUE
    /\ events = <<>>
    /\ env_t = 0
    /\ env_done = FALSE
    /\ data_dir = {}
    /\ pickles = <<>>
    /\ predict_call = None
    /\ quit_received = FALSE
    /\ env_joint_action = None
    /\ done_signalled = FALSE
    /\ count = [c \in Callees |-> 0]

\* one pass of the collection loop while self._running: both seats are
\* filled, then on_loop
Loop ==
    /\ _running
    /\ \E a0, a1 \in {STAY, INTERACT}, sparse_r \in SparseRewards, d \in BOOLEAN :
            OnLoop([p \in {0, 1} |-> IF p = 0 THEN a0 ELSE a1], sparse_r, d)
    /\ count' = Bump(count, "env_step")
    /\ UNCHANGED <<agentVars, pc, mode, agent, traj_file, agent_action, collect_trajectory,
                   trial_id, seat, row_index, cursor, on_reset, events,
                   data_dir, pickles, predict_call, quit_received>>

LoopNext == Loop
LoopSpec == LoopInit /\ [][LoopNext]_vars

\* C23: over the transitions appended in one trial, in order, the tick
\* index and the elapsed time never decrease and the time left never
\* increases; the time left is never negative, and it is 0 exactly for the
\* transitions whose tick index is at or beyond 1200.
C23_ClockFieldsMonotone ==
    collect_trajectory =>
        /\ \A i, j \in 1..Len(trajectory) :
            i < j =>
                /\ trajectory[i].cur_gameloop <= trajectory[j].cur_gameloop
                /\ LessEq(trajectory[i].time_elapsed, trajectory[j].time_elapsed)
                /\ LessEq(trajectory[j].time_left, trajectory[i].time_left)
        /\ \A i \in 1..Len(trajectory) :
            /\ trajectory[i].time_left.den > 0
            /\ trajectory[i].time_left.num >= 0
            /\ (trajectory[i].time_left.num = 0) <=> (trajectory[i].cur_gameloop >= 1200)

\* transitions were logged on both sides of tick 1200
C23_Witness ==
    /\ collect_trajectory
    /\ \E i, j \in 1..Len(trajectory) :
        /\ i < j
        /\ trajectory[i].cur_gameloop < 1200
        /\ trajectory[i].time_left.num > 0
        /\ trajectory[j].cur_gameloop >= 1200
        /\ trajectory[j].time_left.num = 0

\* the last call was a predict or get_distribution call made on the manager
ManagerDelegated ==
    IsManager /\ ret # None /\ ret.op \in {"predict", "get_distribution"}

\* C24 as claimed: on every predict and get_distribution call of the
\* manager, the observation handed to the worker carries the manager's
\* current subtask id (after any update made in that call) under
\* curr_subtask, and holds neither the player-completed-subtasks nor the
\* teammate-completed-subtasks field.
C24_WorkerObsCarriesSubtaskOnly ==
    ManagerDelegated =>
        /\ "curr_subtask" \in ret.worker_obs.keys
        /\ ret.worker_obs.curr_subtask = oai_agent.curr_subtask_id
        /\ ret.worker_obs.keys \cap ObsKeys = {}

\* the subtask ids the manager may hold: the initial 11, or 0-10
SubtaskIds == 0..11

\* C25 as claimed: the manager's current subtask id is always 11 or one of
\* 0-10; a number outside that set entered at the prompt never becomes the
\* current id and is never put into an observation handed to the worker.
C25_SubtaskIdInRange ==
    IsManager =>
        /\ oai_agent.curr_subtask_id \in SubtaskIds
        /\ ManagerDelegated => ret.worker_obs.curr_subtask \in SubtaskIds

\* C26 as claimed: every transition appended during a collecting session
\* carries the trial id of that session, the id the constructor derived
\* from the data directory and under which save_trajectory names the file;
\* so the transitions of two sessions differ in their trial id.
C26_TransitionsCarryTrialId ==
    (mode = "collect_data" /\ collect_trajectory) =>
        \A i \in 1..Len(trajectory) : trajectory[i].trial_id = trial_id


============================================================================
